---- MODULE Spec2Model ----
(***************************************************************************)
(* Model of sk/semver.hpp: the two grammar policies, convertNumeric, the   *)
(* prerelease and build_meta parsers, version::parse, the constructors of  *)
(* version and the comparison operators.                                   *)
(*                                                                         *)
(* Text is a sequence of one-character strings.  A std::string_view is a   *)
(* record [buf, off, len] naming a buffer of the heap; a buffer is         *)
(* [text, alive].  An exception is a result record with thrown = TRUE and  *)
(* the what() text.                                                        *)
(***************************************************************************)
EXTENDS Integers, Sequences, FiniteSets, TLC

\* Width of std::uint64_t, scaled down so that a two-digit field overflows.
UintBits == 4

\* Largest number of dot-separated identifiers in a generated prerelease or
\* build text.
MaxParts == 2

\* ULLONG_MAX for the scaled width.
ULLONG_MAX == 2^UintBits - 1

---------------------------------------------------------------------------
(* Characters                                                              *)

DigitChars == {"0", "1", "2", "9"}

AlphaChars == {"a", "b", "v"}

\* ASCII code of a character (unsigned char value used by char_traits).
ord(c) ==
    CASE c = "+" -> 43 [] c = "-" -> 45 [] c = "." -> 46
      [] c = "0" -> 48 [] c = "1" -> 49 [] c = "2" -> 50 [] c = "9" -> 57
      [] c = "a" -> 97 [] c = "b" -> 98 [] c = "v" -> 118

isdigit(c) == c \in DigitChars

isalnum(c) == c \in DigitChars \cup AlphaChars

SetMin(S) == CHOOSE x \in S : \A y \in S : x <= y

\* std::string_view::npos
npos == -1

\* std::string_view::find(ch, pos) on 0-based positions.
find(text, ch, pos) ==
    LET hits == {i \in pos..(Len(text) - 1) : text[i + 1] = ch}
    IN  IF hits = {} THEN npos ELSE SetMin(hits)

\* std::string_view::substr(pos, count) as 0-based (offset, length).
substr(text, pos, count) ==
    [off |-> pos,
     len |-> IF count < 0 \/ count > Len(text) - pos
             THEN Len(text) - pos ELSE count]

\* Three-way comparison of two texts: char_traits<char>::compare on the
\* common prefix, then the lengths.
sv_compare(a, b) ==
    LET n    == IF Len(a) < Len(b) THEN Len(a) ELSE Len(b)
        diff == {i \in 1..n : a[i] # b[i]}
    IN  IF diff # {}
        THEN IF ord(a[SetMin(diff)]) < ord(b[SetMin(diff)])
             THEN "less" ELSE "greater"
        ELSE IF Len(a) < Len(b) THEN "less"
        ELSE IF Len(a) > Len(b) THEN "greater"
        ELSE "equal"

---------------------------------------------------------------------------
(* Heap of character buffers and views into them                           *)

BufIds == {"str", "tmp4", "tmp5", "lhs", "rhs"}

NoBuf == [text |-> <<>>, alive |-> FALSE]

EmptyHeap == [b \in BufIds |-> NoBuf]

\* A default-constructed std::string_view.
NullView == [buf |-> "null", off |-> 0, len |-> 0]

\* A std::string_view over a whole buffer.
ViewOf(h, b) == [buf |-> b, off |-> 0, len |-> Len(h[b].text)]

\* The characters a view denotes.
Deref(h, v) ==
    IF v.buf = "null" THEN <<>>
    ELSE SubSeq(h[v.buf].text, v.off + 1, v.off + v.len)

\* A std::string comes to life holding text.
Materialize(h, b, text) == [h EXCEPT ![b] = [text |-> text, alive |-> TRUE]]

\* The std::string is destroyed; its characters are gone.
Destroy(h, b) == [h EXCEPT ![b].alive = FALSE]

---------------------------------------------------------------------------
(* Exceptions                                                              *)

Throw(msg) == [thrown |-> TRUE, what |-> msg]

Return(v) == [thrown |-> FALSE, what |-> "", val |-> v]

---------------------------------------------------------------------------
(* Grammar policies                                                        *)

Policies == {"strict", "loose"}

\* `0|[1-9]\d*`
NumericCore(t) ==
    /\ t # <<>>
    /\ \A i \in 1..Len(t) : isdigit(t[i])
    /\ Len(t) = 1 \/ t[1] # "0"

\* `[0-9a-zA-Z-]+`
BuildIdent(t) ==
    /\ t # <<>>
    /\ \A i \in 1..Len(t) : isalnum(t[i]) \/ t[i] = "-"

\* `0|[1-9]\d*|\d*[a-zA-Z-][0-9a-zA-Z-]*`
PrereleaseIdent(t) ==
    \/ NumericCore(t)
    \/ /\ BuildIdent(t)
       /\ \E i \in 1..Len(t) : ~isdigit(t[i])

\* The maximal '.'-free segments of a text, the X's of `X(?:\.X)*`.
RECURSIVE Segments(_)
Segments(t) ==
    LET dots == {i \in 1..Len(t) : t[i] = "."}
    IN  IF dots = {} THEN <<t>>
        ELSE <<SubSeq(t, 1, SetMin(dots) - 1)>>
             \o Segments(SubSeq(t, SetMin(dots) + 1, Len(t)))

\* Length of the run of digits of s that starts at 1-based index i.
DigitRun(s, i) ==
    SetMin({j \in i..(Len(s) + 1) : j = Len(s) + 1 \/ ~isdigit(s[j])}) - i

\* What differs between the two kPattern strings: the leading `v?` and the
\* `(?: ... )?` around the minor and patch groups.
kPattern(policy) ==
    IF policy = "strict"
    THEN [vPrefix |-> FALSE, optionalMinorPatch |-> FALSE]
    ELSE [vPrefix |-> TRUE,  optionalMinorPatch |-> TRUE]

Unmatched == [matched |-> FALSE, off |-> 0, len |-> 0]

SubMatch(off, len) == [matched |-> TRUE, off |-> off, len |-> len]

\* `v?` at the start: the number of characters it takes.
match_prefix(s, pat) ==
    IF pat.vPrefix /\ Len(s) >= 1 /\ s[1] = "v" THEN 1 ELSE 0

\* `(0|[1-9]\d*)` at 0-based position pos.  The group is followed by '.',
\* '-', '+' or the end, so it takes the whole run of digits or nothing.
match_number(s, pos) ==
    LET n == DigitRun(s, pos + 1)
    IN  IF NumericCore(SubSeq(s, pos + 1, pos + n)) THEN SubMatch(pos, n)
        ELSE Unmatched

\* `\.(0|[1-9]\d*)` at pos.
match_dot_number(s, pos) ==
    IF pos + 1 <= Len(s) /\ s[pos + 1] = "."
    THEN match_number(s, pos + 1)
    ELSE Unmatched

\* Every '.'-separated segment of t is a prerelease identifier.
PrereleaseText(t) ==
    LET ids == Segments(t)
    IN  \A i \in 1..Len(ids) : PrereleaseIdent(ids[i])

\* Every '.'-separated segment of t is a build identifier.
BuildText(t) ==
    LET ids == Segments(t)
    IN  \A i \in 1..Len(ids) : BuildIdent(ids[i])

\* The end of the text that starts at pos and runs up to the next '+'.
UpToPlus(s, pos) ==
    LET plus == find(s, "+", pos)
    IN  IF plus = npos THEN Len(s) ELSE plus

\* `(?:-(...))?` at pos: no identifier holds a '+', so the group runs to
\* the next '+' or to the end.
match_prerelease(s, pos) ==
    LET e == UpToPlus(s, pos)
    IN  IF /\ pos + 1 <= Len(s)
           /\ s[pos + 1] = "-"
           /\ PrereleaseText(SubSeq(s, pos + 2, e))
        THEN SubMatch(pos + 1, e - pos - 1)
        ELSE Unmatched

\* `(?:\+(...))?$` at pos.
match_build(s, pos) ==
    IF /\ pos + 1 <= Len(s)
       /\ s[pos + 1] = "+"
       /\ BuildText(SubSeq(s, pos + 2, Len(s)))
    THEN SubMatch(pos + 1, Len(s) - pos - 1)
    ELSE Unmatched

\* The matcher after one more group g: the position moves past it.
Advance(st, g) ==
    [pos |-> IF g.matched THEN g.off + g.len ELSE st.pos,
     sub |-> Append(st.sub, g)]

\* The groups in pattern order.  A greedy `?` takes its group when it can,
\* so a single ".N" goes to the minor group.
match_major(s, pat) ==
    Advance([pos |-> 0, sub |-> <<>>], match_number(s, match_prefix(s, pat)))

match_minor(s, st) == Advance(st, match_dot_number(s, st.pos))

match_patch(s, st) == Advance(st, match_dot_number(s, st.pos))

match_pre(s, st) == Advance(st, match_prerelease(s, st.pos))

match_meta(s, st) == Advance(st, match_build(s, st.pos))

match_groups(s, pat) ==
    match_meta(s, match_pre(s, match_patch(s, match_minor(s, match_major(s, pat)))))

\* std::regex_match(input.data(), match, regex): the whole text against the
\* anchored pattern.  Offsets are 0-based positions of the input.
regex_match(s, pat) ==
    LET st == match_groups(s, pat)
    IN  IF /\ st.sub[1].matched
           /\ \/ pat.optionalMinorPatch
              \/ /\ st.sub[2].matched
                 /\ st.sub[3].matched
           /\ st.pos = Len(s)
        THEN [ok |-> TRUE, sub |-> st.sub]
        ELSE [ok |-> FALSE, sub |-> [i \in 1..5 |-> Unmatched]]

\* sub_match::str(): a copy of the matched characters.
str_of(s, sm) == SubSeq(s, sm.off + 1, sm.off + sm.len)

kMajorRequired == "Major version is required"

kMinorRequired == "Minor version is required"

kPatchRequired == "Patch version is required"

\* strict_version_parsing_policy::validateSchema
strict_validateSchema(match) ==
    IF ~match.sub[1].matched THEN Throw(kMajorRequired)
    ELSE IF ~match.sub[2].matched THEN Throw(kMajorRequired)
    ELSE IF ~match.sub[3].matched THEN Throw(kPatchRequired)
    ELSE Return(TRUE)

\* loose_version_parsing_policy::validateSchema
loose_validateSchema(match) ==
    IF ~match.sub[1].matched THEN Throw(kMajorRequired)
    ELSE Return(TRUE)

\* Policy::validateSchema(match)
validateSchema(policy, match) ==
    IF policy = "strict" THEN strict_validateSchema(match)
    ELSE loose_validateSchema(match)

---------------------------------------------------------------------------
(* detail::convertNumeric                                                  *)

\* Value of a text of decimal digits.
RECURSIVE Decimal(_)
Decimal(t) ==
    IF t = <<>> THEN 0
    ELSE Decimal(SubSeq(t, 1, Len(t) - 1)) * 10 + (ord(t[Len(t)]) - ord("0"))

\* std::stoull: the leading digits as a number; std::invalid_argument when
\* there are none, std::out_of_range when the value does not fit.
stoull(number) ==
    LET n == DigitRun(number, 1)
        v == Decimal(SubSeq(number, 1, n))
    IN  IF n = 0 THEN Throw("stoull")
        ELSE IF v > ULLONG_MAX THEN Throw("stoull")
        ELSE Return(v)

\* A conversion that accumulates the digits in the unsigned type and wraps.
convertNumericWrapping(number, partName) ==
    Return(Decimal(SubSeq(number, 1, DigitRun(number, 1))) % (ULLONG_MAX + 1))

convertNumeric(number, partName) ==
    LET r == stoull(number)
    IN  IF r.thrown THEN Throw(partName) ELSE Return(r.val)

---------------------------------------------------------------------------
(* prerelease and prerelease::part                                         *)

kEmptyPart == "Empty prerelease part."

kLeadingZero == "Leading zero in prerelease part."

\* prerelease::part::parse
part_parse(h, text) ==
    LET t        == Deref(h, text)
        is_valid == \A i \in 1..Len(t) : isalnum(t[i]) \/ t[i] = "-"
    IN  IF t = <<>> \/ ~is_valid THEN Throw(kEmptyPart)
        ELSE IF Len(t) > 1 /\ t[1] = "0" THEN Throw(kLeadingZero)
        ELSE Return([value_ |-> text])

\* The loop of prerelease::split from position previous on.
RECURSIVE split_loop(_, _)
split_loop(t, previous) ==
    LET current == find(t, ".", previous)
    IN  IF current = npos
        THEN <<substr(t, previous, current - previous)>>
        ELSE <<substr(t, previous, current - previous)>>
             \o split_loop(t, current + 1)

\* prerelease::split: views into the buffer of str.
split(h, str) ==
    LET pieces == split_loop(Deref(h, str), 0)
    IN  [i \in 1..Len(pieces) |->
           [buf |-> str.buf, off |-> str.off + pieces[i].off,
            len |-> pieces[i].len]]

\* prerelease{}
prerelease_default == [parts_ |-> <<>>, value_ |-> NullView]

\* prerelease::parse
prerelease_parse(h, str) ==
    IF str.len = 0 THEN Return(prerelease_default)
    ELSE LET subs == split(h, str)
             rs   == [i \in 1..Len(subs) |-> part_parse(h, subs[i])]
             bad  == {i \in 1..Len(subs) : rs[i].thrown}
         IN  IF bad # {} THEN Throw(rs[SetMin(bad)].what)
             ELSE Return([parts_ |-> [i \in 1..Len(subs) |-> rs[i].val],
                          value_ |-> str])

\* prerelease::part::operator<=>
part_compare(h, a, b) == sv_compare(Deref(h, a.value_), Deref(h, b.value_))

\* std::vector's operator<=>: lexicographic over the elements.
vector_compare(h, x, y) ==
    LET n    == IF Len(x) < Len(y) THEN Len(x) ELSE Len(y)
        diff == {i \in 1..n : part_compare(h, x[i], y[i]) # "equal"}
    IN  IF diff # {} THEN part_compare(h, x[SetMin(diff)], y[SetMin(diff)])
        ELSE IF Len(x) < Len(y) THEN "less"
        ELSE IF Len(x) > Len(y) THEN "greater"
        ELSE "equal"

\* prerelease::operator<=>
prerelease_compare(h, a, b) == vector_compare(h, a.parts_, b.parts_)

---------------------------------------------------------------------------
(* build_meta                                                              *)

kEmptyBuildMeta == "Empty build meta."

\* build_meta{}
build_meta_default == [value_ |-> NullView]

\* build_meta::parse
build_meta_parse(h, text) ==
    LET t        == Deref(h, text)
        is_valid == \A i \in 1..Len(t) : isalnum(t[i]) \/ t[i] = "-"
    IN  IF t = <<>> \/ ~is_valid THEN Throw(kEmptyBuildMeta)
        ELSE Return([value_ |-> text])

---------------------------------------------------------------------------
(* version                                                                 *)

kInvalidVersion == "invalid version string"

kErrorMessage == "Failed to parse version string: "

\* version(major, minor, patch, prerelease, build_meta); value_ stays empty.
version_ctor(major, minor, patch, prerel, meta) ==
    [prerelease_ |-> prerel, build_meta_ |-> meta, value_ |-> <<>>,
     major_ |-> major, minor_ |-> minor, patch_ |-> patch]

\* A nested parse that the try block did not reach.
NotCalled == [thrown |-> FALSE, what |-> "not called"]

\* The locals of version::parse when the try block is entered; e is the
\* exception in flight, if any.
frame0(h) ==
    [e |-> Return(TRUE), heap |-> h, major |-> 0, minor |-> 0, patch |-> 0,
     prerel |-> prerelease_default, meta |-> build_meta_default,
     preCall |-> NotCalled, metaCall |-> NotCalled]

\* Policy::validateSchema(match);
stmt_validate(policy, match, f) ==
    [f EXCEPT !.e = validateSchema(policy, match)]

\* major = convertNumeric(match[1].str(), "major");
stmt_major(s, match, f) ==
    LET r == convertNumeric(str_of(s, match.sub[1]), "major")
    IN  IF f.e.thrown THEN f
        ELSE IF r.thrown THEN [f EXCEPT !.e = r]
        ELSE [f EXCEPT !.major = r.val]

\* minor = match[2].matched ? convertNumeric(match[2].str(), "minor") : 0;
stmt_minor(s, match, f) ==
    LET r == convertNumeric(str_of(s, match.sub[2]), "minor")
    IN  IF f.e.thrown THEN f
        ELSE IF ~match.sub[2].matched THEN [f EXCEPT !.minor = 0]
        ELSE IF r.thrown THEN [f EXCEPT !.e = r]
        ELSE [f EXCEPT !.minor = r.val]

\* patch = match[3].matched ? convertNumeric(match[3].str(), "patch") : 0;
stmt_patch(s, match, f) ==
    LET r == convertNumeric(str_of(s, match.sub[3]), "patch")
    IN  IF f.e.thrown THEN f
        ELSE IF ~match.sub[3].matched THEN [f EXCEPT !.patch = 0]
        ELSE IF r.thrown THEN [f EXCEPT !.e = r]
        ELSE [f EXCEPT !.patch = r.val]

\* prerelease::parse on the temporary std::string b of heap h; the
\* temporary is destroyed when the statement ends, thrown or not.
call_prerelease_parse(h, b, f) ==
    LET r == prerelease_parse(h, ViewOf(h, b))
    IN  IF r.thrown
        THEN [f EXCEPT !.e = r, !.preCall = r, !.heap = Destroy(h, b)]
        ELSE [f EXCEPT !.prerel = r.val, !.preCall = r, !.heap = Destroy(h, b)]

\* if (match[4].matched) prerel = prerelease::parse(match[4].str());
stmt_prerel(s, match, f) ==
    IF f.e.thrown \/ ~match.sub[4].matched THEN f
    ELSE call_prerelease_parse(
             Materialize(f.heap, "tmp4", str_of(s, match.sub[4])), "tmp4", f)

\* build_meta::parse on the temporary std::string b of heap h.
call_build_meta_parse(h, b, f) ==
    LET r == build_meta_parse(h, ViewOf(h, b))
    IN  IF r.thrown
        THEN [f EXCEPT !.e = r, !.metaCall = r, !.heap = Destroy(h, b)]
        ELSE [f EXCEPT !.meta = r.val, !.metaCall = r, !.heap = Destroy(h, b)]

\* if (match[5].matched) meta = build_meta::parse(match[5].str());
stmt_meta(s, match, f) ==
    IF f.e.thrown \/ ~match.sub[5].matched THEN f
    ELSE call_build_meta_parse(
             Materialize(f.heap, "tmp5", str_of(s, match.sub[5])), "tmp5", f)

\* The try block of version::parse, statement by statement.
try_block(policy, s, match, h) ==
    stmt_meta(s, match,
      stmt_prerel(s, match,
        stmt_patch(s, match,
          stmt_minor(s, match,
            stmt_major(s, match,
              stmt_validate(policy, match, frame0(h)))))))

\* A handler that rethrows the caught exception as it is.
catch_handler_bare(e) == Throw(e.what)

\* The catch block of version::parse.
catch_handler(e) == Throw(kErrorMessage \o e.what)

\* What parse hands back once the try block f is through: the rethrown
\* exception, or `return { major, minor, patch, prerel, meta };`.
parse_result(f) ==
    [ret  |-> IF f.e.thrown THEN catch_handler(f.e)
              ELSE Return(version_ctor(f.major, f.minor, f.patch,
                                       f.prerel, f.meta)),
     heap |-> f.heap, pre |-> f.preCall, meta |-> f.metaCall]

\* version::parse, with `input` read as the parameter str.
version_parse(policy, h) ==
    LET match == regex_match(h["str"].text, kPattern(policy))
    IN  IF ~match.ok
        THEN [ret |-> Throw(kInvalidVersion), heap |-> h,
              pre |-> NotCalled, meta |-> NotCalled]
        ELSE parse_result(try_block(policy, h["str"].text, match, h))

\* An ordering of two unsigned integers.
int_compare(a, b) ==
    IF a < b THEN "less" ELSE IF a > b THEN "greater" ELSE "equal"

\* Comparison of two versions: major, minor and patch in turn, then the
\* prerelease comparison.
version_compare(h, a, b) ==
    IF a.major_ # b.major_ THEN int_compare(a.major_, b.major_)
    ELSE IF a.minor_ # b.minor_ THEN int_compare(a.minor_, b.minor_)
    ELSE IF a.patch_ # b.patch_ THEN int_compare(a.patch_, b.patch_)
    ELSE prerelease_compare(h, a.prerelease_, b.prerelease_)

---------------------------------------------------------------------------
(* Inputs                                                                  *)

\* All sequences over S of length lo..hi.
SeqsOf(S, lo, hi) == UNION {[1..n -> S] : n \in lo..hi}

\* The identifiers of ids joined by '.'.
RECURSIVE Join(_)
Join(ids) ==
    IF Len(ids) = 0 THEN <<>>
    ELSE IF Len(ids) = 1 THEN ids[1]
    ELSE ids[1] \o <<".">> \o Join(Tail(ids))

NumTexts == {<<"2">>, <<"1", "0">>, <<"9", "9">>, <<"0", "1">>}

PreIds == {<<"a">>, <<"0", "a">>, <<"0", "1">>}

BuildIds == {<<"b">>, <<"0", "1">>}

CmpIds == {<<"1">>, <<"2">>, <<"1", "1">>, <<"a">>, <<"-">>}

Triples == {<<0, 1, 1>>, <<1, 0, 0>>, <<1, 0, 1>>}

\* An optional piece of a version string: nothing, or lead followed by text.
Opt(lead, texts) == {<<>>} \cup {<<lead>> \o t : t \in texts}

PreTexts == {Join(q) : q \in SeqsOf(PreIds, 1, MaxParts)}

BuildTexts == {Join(q) : q \in SeqsOf(BuildIds, 1, MaxParts)}

CmpTexts == {Join(q) : q \in SeqsOf(CmpIds, 0, MaxParts)}

---------------------------------------------------------------------------
(* State machine                                                           *)

VARIABLES
    pc,       \* "idle", "parsed", "compared" or "default"
    policy,   \* the Policy of the version<Policy>::parse call
    heap,     \* the character buffers
    ret,      \* what parse returned or threw; the default-constructed value
    nested,   \* outcome of the nested prerelease and build_meta parses
    lhs,      \* left operand of the comparison
    rhs,      \* right operand of the comparison
    order     \* result of the comparison

vars == <<pc, policy, heap, ret, nested, lhs, rhs, order>>

NoVersion == version_ctor(0, 0, 0, prerelease_default, build_meta_default)

NoOrd == [prerelease |-> "none", version |-> "none"]

NoNested == [pre |-> NotCalled, meta |-> NotCalled]

Init ==
    /\ pc = "idle"
    /\ policy = "strict"
    /\ heap = EmptyHeap
    /\ ret = Return(NoVersion)
    /\ nested = NoNested
    /\ lhs = NoVersion
    /\ rhs = NoVersion
    /\ order = NoOrd

\* version<Policy>::parse(str) on a string the caller owns.
Parse ==
    /\ pc = "idle"
    /\ \E p \in Policies, v \in {<<>>, <<"v">>}, mj \in NumTexts,
          mn \in Opt(".", NumTexts), pt \in Opt(".", NumTexts),
          pre \in Opt("-", PreTexts), bld \in Opt("+", BuildTexts) :
         LET text == v \o mj \o mn \o pt \o pre \o bld
             r    == version_parse(p, Materialize(EmptyHeap, "str", text))
         IN  /\ pc' = "parsed"
             /\ policy' = p
             /\ heap' = r.heap
             /\ ret' = r.ret
             /\ nested' = [pre |-> r.pre, meta |-> r.meta]
    /\ UNCHANGED <<lhs, rhs, order>>

\* `version<> v;`: the defaulted constructor leaves major_, minor_ and
\* patch_ without a value; reading them yields whatever the storage holds.
DefaultConstruct ==
    /\ pc = "idle"
    /\ \E a \in 0..ULLONG_MAX, b \in 0..ULLONG_MAX, c \in 0..ULLONG_MAX :
         ret' = Return(version_ctor(a, b, c, prerelease_default,
                                    build_meta_default))
    /\ pc' = "default"
    /\ UNCHANGED <<policy, heap, nested, lhs, rhs, order>>

\* Two versions built with the five-argument constructor from prereleases
\* parsed out of strings the caller keeps alive, then compared.
Compare ==
    /\ pc = "idle"
    /\ \E ta \in CmpTexts, tb \in CmpTexts, na \in Triples, nb \in Triples :
         LET h  == Materialize(Materialize(EmptyHeap, "lhs", ta), "rhs", tb)
             pa == prerelease_parse(h, ViewOf(h, "lhs"))
             pb == prerelease_parse(h, ViewOf(h, "rhs"))
             a  == version_ctor(na[1], na[2], na[3], pa.val, build_meta_default)
             b  == version_ctor(nb[1], nb[2], nb[3], pb.val, build_meta_default)
         IN  /\ ~pa.thrown
             /\ ~pb.thrown
             /\ heap' = h
             /\ lhs' = a
             /\ rhs' = b
             /\ order' = [prerelease |-> prerelease_compare(h, pa.val, pb.val),
                          version    |-> version_compare(h, a, b)]
    /\ pc' = "compared"
    /\ UNCHANGED <<policy, ret, nested>>

\* The caller's values go out of scope.
Release ==
    /\ pc # "idle"
    /\ pc' = "idle"
    /\ policy' = "strict"
    /\ heap' = EmptyHeap
    /\ ret' = Return(NoVersion)
    /\ nested' = NoNested
    /\ lhs' = NoVersion
    /\ rhs' = NoVersion
    /\ order' = NoOrd

Next == Parse \/ DefaultConstruct \/ Compare \/ Release

Spec == Init /\ [][Next]_vars

---------------------------------------------------------------------------
(* Properties                                                              *)

\* The text handed to parse and its match under the policy in force.
InputText == heap["str"].text

InputMatch == regex_match(InputText, kPattern(policy))

\* The text of capture group i of the input.
Group(i) == str_of(InputText, InputMatch.sub[i])

AllDigits(t) == t # <<>> /\ \A i \in 1..Len(t) : isdigit(t[i])

\* The rule for one position of two prereleases: numbers by value, a number
\* below a non-number, anything else in ASCII order.
IdentifierRule(a, b) ==
    IF AllDigits(a) /\ AllDigits(b) THEN int_compare(Decimal(a), Decimal(b))
    ELSE IF AllDigits(a) THEN "less"
    ELSE IF AllDigits(b) THEN "greater"
    ELSE sv_compare(a, b)

\* The identifiers of a prerelease as texts.
PartTexts(p) == [i \in 1..Len(p.parts_) |-> Deref(heap, p.parts_[i].value_)]

\* The positions at which two compared prereleases differ.
Differing ==
    LET x == PartTexts(lhs.prerelease_)
        y == PartTexts(rhs.prerelease_)
    IN  {i \in 1..(IF Len(x) < Len(y) THEN Len(x) ELSE Len(y)) : x[i] # y[i]}

\* C1: two prereleases that differ at some position compare as the
\* identifier rule orders the identifiers at the first such position
\* (numbers by value, so 2 < 11; a number below a non-number).
C1_PrereleaseFollowsIdentifierRule ==
    (pc = "compared" /\ Differing # {}) =>
        order.prerelease =
            IdentifierRule(PartTexts(lhs.prerelease_)[SetMin(Differing)],
                           PartTexts(rhs.prerelease_)[SetMin(Differing)])

SameTriple ==
    /\ lhs.major_ = rhs.major_
    /\ lhs.minor_ = rhs.minor_
    /\ lhs.patch_ = rhs.patch_

\* C2: with equal major, minor and patch, a version without a prerelease
\* compares strictly greater than one with a non-empty prerelease.
C2_ReleaseAbovePrerelease ==
    (pc = "compared" /\ SameTriple) =>
        /\ (lhs.prerelease_.parts_ = <<>> /\ rhs.prerelease_.parts_ # <<>>)
              => order.version = "greater"
        /\ (lhs.prerelease_.parts_ # <<>> /\ rhs.prerelease_.parts_ = <<>>)
              => order.version = "less"

\* An identifier the leading-zero rule is about: several digits, the first 0.
NumericLeadingZero(t) == Len(t) > 1 /\ AllDigits(t) /\ t[1] = "0"

\* C3: the prerelease validator rejects an identifier for a leading zero
\* only when it is longer than one character, all digits, and starts with
\* '0'; an identifier such as "0a" is accepted.
C3_LeadingZeroOnlyWhenNumeric ==
    (pc = "parsed" /\ nested.pre.thrown /\ nested.pre.what = kLeadingZero) =>
        \E i \in 1..Len(Segments(Group(4))) :
            NumericLeadingZero(Segments(Group(4))[i])

\* C4: a build text of one or more dot-separated non-empty identifiers over
\* [0-9A-Za-z-] is accepted by build-metadata parsing.
C4_DottedBuildAccepted ==
    (/\ pc = "parsed"
     /\ nested.meta # NotCalled
     /\ \A i \in 1..Len(Segments(Group(5))) : BuildIdent(Segments(Group(5))[i]))
        => ~nested.meta.thrown

\* The input has the shape MAJOR[.MINOR[.PATCH]] with minor or patch absent.
LooseMatch == regex_match(InputText, kPattern("loose"))

MissingMinorOrPatch ==
    /\ LooseMatch.ok
    /\ LooseMatch.sub[1].off = 0
    /\ ~LooseMatch.sub[2].matched \/ ~LooseMatch.sub[3].matched

\* The error that names the field absent from the input.
MissingFieldErrors ==
    IF ~LooseMatch.sub[2].matched
    THEN {kMinorRequired, kErrorMessage \o kMinorRequired}
    ELSE {kPatchRequired, kErrorMessage \o kPatchRequired}

\* C5: under the strict policy an input without minor or patch fails with
\* the missing-field error naming that field, not the generic error.
C5_StrictMissingFieldIsNamed ==
    (pc = "parsed" /\ policy = "strict" /\ MissingMinorOrPatch) =>
        /\ ret.thrown
        /\ ret.what \in MissingFieldErrors
        /\ ret.what # kInvalidVersion

\* Numeric group i of match m of the input is present and its value does
\* not fit.
Overflows(m, i) ==
    m.sub[i].matched /\ Decimal(str_of(InputText, m.sub[i])) > ULLONG_MAX

\* The value numeric group i of match m stands for: 0 when absent.
FieldValue(m, i) ==
    IF m.sub[i].matched THEN Decimal(str_of(InputText, m.sub[i])) ELSE 0

\* C6: under the loose policy every input of the loose form with numbers in
\* range parses; an absent minor or patch is 0, a present one its value.
C6_LooseFormParses ==
    (pc = "parsed" /\ policy = "loose") =>
        LET m == InputMatch
        IN  (m.ok /\ \A i \in 1..3 : ~Overflows(m, i))
               => /\ ~ret.thrown
                  /\ ret.val.major_ = FieldValue(m, 1)
                  /\ ret.val.minor_ = FieldValue(m, 2)
                  /\ ret.val.patch_ = FieldValue(m, 3)

\* Every text a missing-field error can carry, bare or with the context.
AllMissingFieldErrors ==
    {kMajorRequired, kMinorRequired, kPatchRequired,
     kErrorMessage \o kMajorRequired, kErrorMessage \o kMinorRequired,
     kErrorMessage \o kPatchRequired}

\* C7: when the input matches the pattern and a present numeric field
\* exceeds the unsigned range, parse throws, and what it throws is not a
\* missing-field error; no version with a wrapped field comes back.
C7_OverflowIsAnError ==
    pc = "parsed" =>
        LET m == InputMatch
        IN  (m.ok /\ \E i \in 1..3 : Overflows(m, i))
               => /\ ret.thrown
                  /\ ret.what \notin AllMissingFieldErrors

\* A parse of a matching input with an overflowing minor has thrown.
C7_Witness ==
    /\ pc = "parsed"
    /\ InputMatch.ok
    /\ ~Overflows(InputMatch, 1)
    /\ Overflows(InputMatch, 2)
    /\ ret.thrown

C9_DefaultConstructedIsZero ==
    pc = "default" =>
        /\ ret.val.major_ = 0
        /\ ret.val.minor_ = 0
        /\ ret.val.patch_ = 0

\* Every std::string_view a version holds.
ViewsOf(v) ==
    {v.prerelease_.value_, v.build_meta_.value_}
        \cup {v.prerelease_.parts_[i].value_ :
                 i \in 1..Len(v.prerelease_.parts_)}

\* C10: every view in a version returned by parse is into a buffer that is
\* still alive and is not the input string.
C10_ReturnedVersionSelfContained ==
    (pc = "parsed" /\ ~ret.thrown) =>
        \A w \in ViewsOf(ret.val) :
            w.buf = "null" \/ (heap[w.buf].alive /\ w.buf # "str")

====
